---- MODULE Spec2Model ----
(***************************************************************************)
(* Ingestion pipeline of services/ingestion/handler.py: chunk_text, the    *)
(* embed_text retry loop, the vector_exists probe and the per-document     *)
(* pass of process_s3_event against the processed bucket.                  *)
(***************************************************************************)
EXTENDS Integers, Sequences, FiniteSets, TLC

\* ------------------------------------------------------------------------
\* Bounds of the model
\* ------------------------------------------------------------------------

\* Longest text enumerated character by character for chunk_text.
MaxTextLen == 4

\* Largest chunk_size enumerated for chunk_text (besides the default).
MaxChunkSize == 3

\* Passes of process_s3_event started in one behaviour.
MaxPasses == 2

\* ------------------------------------------------------------------------
\* Program constants
\* ------------------------------------------------------------------------

\* chunk_text's default chunk_size and overlap.
DefaultChunkSize == 1200
DefaultOverlap == 200

Min(a, b) == IF a < b THEN a ELSE b

\* ------------------------------------------------------------------------
\* chunk_text
\* ------------------------------------------------------------------------

Chars == {"a", "b"}

\* A 2500-character text, not periodic in any small shift.
ExampleText == [i \in 1..2500 |-> IF (i * i) % 7 < 3 THEN "a" ELSE "b"]

SmallTexts == UNION {[1..n -> Chars] : n \in 0..MaxTextLen}

\* Python's text[lo:hi] for 0 <= lo <= hi <= len(text).
Slice(s, lo, hi) == SubSeq(s, lo + 1, hi)

\* end = min(start + chunk_size, text_length)
ChunkEnd(st, size, text_length) == Min(st + size, text_length)

\* start = end - overlap, with a start off by one
NextStartOffByOne(end, ov) == end - ov + 1

\* start = end - overlap - 1: no progress when overlap = chunk_size - 1
NextStartNoProgress(end, ov) == end - ov - 1

\* start = end - overlap, with the overlap forgotten
NextStartNoOverlap(end, ov) == end

\* start = end - overlap
NextStart(end, ov) == end - ov

\* The spans [start, end) of the slices chunk_text appends, from `st` on:
\* the while loop of chunk_text on a text of length text_length.
RECURSIVE ChunkSpansFrom(_, _, _, _)
ChunkSpansFrom(st, text_length, size, ov) ==
    IF ~(st < text_length) THEN <<>>
    ELSE LET end == ChunkEnd(st, size, text_length) IN
         IF end = text_length THEN << <<st, end>> >>
         ELSE << <<st, end>> >> \o ChunkSpansFrom(NextStart(end, ov), text_length, size, ov)

\* chunk_text's spans for a text of length text_length ("if not text: return []").
ChunkSpans(text_length, size, ov) ==
    IF text_length = 0 THEN <<>> ELSE ChunkSpansFrom(0, text_length, size, ov)

\* ------------------------------------------------------------------------
\* Identity and storage paths
\* ------------------------------------------------------------------------

S3_VECTORS_INDEX == "rag-insurellm-dev-kb"
S3_VECTORS_NAMESPACE == "default"

\* An optional string (str | None) is a sequence of at most one string.
None == <<>>
Some(s) == <<s>>

\* Python truthiness of a str | None: neither None nor "".
Truthy(opt) == opt # None /\ opt[1] # ""

\* token = version_id or etag or ""
Token(version_id, etag) ==
    IF Truthy(version_id) THEN version_id[1]
    ELSE IF Truthy(etag) THEN etag[1]
    ELSE ""

\* hashlib.sha256(...).hexdigest(), taken as injective on its input.
Sha256Hex(base) == "sha256(" \o base \o ")"

\* An object key is held as its "/"-separated segments; this is the key string.
RECURSIVE KeyString(_)
KeyString(segs) ==
    IF Len(segs) = 0 THEN ""
    ELSE IF Len(segs) = 1 THEN segs[1]
    ELSE segs[1] \o "/" \o KeyString(Tail(segs))

\* a doc_id that leaves the version token out
BuildDocIdNoToken(bucket, key, version_id, etag) ==
    Sha256Hex(bucket \o ":" \o KeyString(key))

build_doc_id(bucket, key, version_id, etag) ==
    Sha256Hex(bucket \o ":" \o KeyString(key) \o ":" \o Token(version_id, etag))

\* chunk_id = f"{doc_id}:{idx}"
ChunkId(doc_id, idx) == doc_id \o ":" \o ToString(idx)

vector_object_key(chunk_id) ==
    "vectors/" \o S3_VECTORS_INDEX \o "/" \o S3_VECTORS_NAMESPACE \o "/" \o chunk_id \o ".json"

\* put_manifest's key
ManifestKey(doc_id) == "processed/" \o doc_id \o "/chunks.json"

DocTypes == {"company", "contracts", "employees", "products"}

\* prefix = key.split("/", 1)[0]
infer_doc_type(key) ==
    LET prefix == IF Len(key) = 0 THEN "" ELSE key[1]
    IN IF prefix \in DocTypes THEN prefix ELSE "unknown"

SourceUri(bucket, key) == "s3://" \o bucket \o "/" \o KeyString(key)

\* chunk[:200] of the chunk with span sp, as a span of the text.
PreviewLen == 200
Preview(sp) == <<sp[1], Min(sp[2], sp[1] + PreviewLen)>>

\* ------------------------------------------------------------------------
\* The collaborators' answers
\* ------------------------------------------------------------------------

\* head_object on the processed bucket: success, a ClientError with an error
\* code, or an error that is not a ClientError.
NotFoundCodes == {"404", "NoSuchKey", "NotFound"}
AccessDeniedCodes == {"403", "AccessDenied", "Forbidden"}
OtherCodes == {"500"}

HeadOk == [kind |-> "ok", code |-> "200"]
HeadClientError(code) == [kind |-> "ClientError", code |-> code]
HeadBotoCoreError == [kind |-> "BotoCoreError", code |-> ""]

\* What head_object can answer for a key that is, or is not, in the bucket.
\* A denied caller gets 403 for either; 404 is answered only for a missing key.
HeadAnswers(present) ==
    (IF present THEN {HeadOk} ELSE {HeadClientError(c) : c \in NotFoundCodes})
        \cup {HeadClientError(c) : c \in AccessDeniedCodes \cup OtherCodes}
        \cup {HeadBotoCoreError}

\* vector_exists with access-denied propagated instead of tolerated
VectorExistsDeniedRaises(answer) ==
    IF answer.kind = "ok" THEN "true"
    ELSE IF answer.kind = "ClientError" /\ answer.code \in NotFoundCodes THEN "false"
    ELSE "raise"

\* vector_exists with access-denied taken for present
VectorExistsDeniedPresent(answer) ==
    IF answer.kind = "ok" THEN "true"
    ELSE IF answer.kind = "ClientError" /\ answer.code \in NotFoundCodes THEN "false"
    ELSE IF answer.kind = "ClientError" /\ answer.code \in AccessDeniedCodes THEN "true"
    ELSE "raise"

\* vector_exists without its "return True": None, which is falsy
VectorExistsNoReturn(answer) ==
    IF answer.kind = "ok" THEN "false"
    ELSE IF answer.kind = "ClientError" /\ answer.code \in NotFoundCodes THEN "false"
    ELSE IF answer.kind = "ClientError" /\ answer.code \in AccessDeniedCodes THEN "false"
    ELSE "raise"

\* vector_exists: "true", "false", or "raise" (the error propagates).
vector_exists(answer) ==
    IF answer.kind = "ok" THEN "true"
    ELSE IF answer.kind = "ClientError" /\ answer.code \in NotFoundCodes THEN "false"
    ELSE IF answer.kind = "ClientError" /\ answer.code \in AccessDeniedCodes THEN "false"
    ELSE "raise"

\* invoke_model: a response body, a ClientError with a code, or another error
\* (BotoCoreError, or KeyError/ValueError reading the response).  A field of
\* the body is missing, or holds a list.
Vec == <<1, 2>>
OtherVec == <<1, 3>>
Missing == [present |-> FALSE, value |-> <<>>]
Field(v) == [present |-> TRUE, value |-> v]
BodyFields == {Missing, Field(<<>>), Field(Vec)}

InvokeOk(embedding, vector) == [kind |-> "ok", code |-> "", embedding |-> embedding, vector |-> vector]
InvokeClientError(code) == [kind |-> "ClientError", code |-> code, embedding |-> Missing, vector |-> Missing]
InvokeOtherError == [kind |-> "BotoCoreError", code |-> "", embedding |-> Missing, vector |-> Missing]

Throttled == InvokeClientError("ThrottlingException")

InvokeAnswers ==
    {Throttled, InvokeClientError("ValidationException"), InvokeOtherError}
        \cup {InvokeOk(e, v) : e \in BodyFields, v \in BodyFields}

\* A dict field that is missing or empty is falsy.
Falsy(field) == ~field.present \/ field.value = <<>>

\* embedding = body.get("embedding") or body.get("vector")
EmbeddingOf(resp) == IF ~Falsy(resp.embedding) THEN resp.embedding ELSE resp.vector

max_retries == 8

\* base_delay = 0.5 and the 8.0 of min(8.0, ...), in milliseconds
base_delay == 500
MaxBackoff == 8000

\* random.uniform(0.75, 1.25) in hundredths, random.uniform(0.05, 0.15) in
\* milliseconds: both ends and the middle of each range.
Jitters == {75, 100, 125}
Pacings == {50, 100, 150}

\* the backoff without its min(8.0, ...)
BackoffUncapped(attempt) == base_delay * (2 ^ attempt)

\* min(8.0, base_delay * (2**attempt)), in milliseconds
Backoff(attempt) == Min(MaxBackoff, base_delay * (2 ^ attempt))

\* delay = min(8.0, base_delay * (2**attempt)) * random.uniform(0.75, 1.25)
Delay(attempt, jitter) == (Backoff(attempt) * jitter) \div 100

\* A time.sleep of embed_text: which one, in which attempt, for how long.
Sleep(kind, attempt, ms) == [kind |-> kind, attempt |-> attempt, ms |-> ms]

\* ------------------------------------------------------------------------
\* The documents that are notified
\* ------------------------------------------------------------------------

\* The s3 part of a notification record: bucket, key, versionId, eTag.
S3Event(bucket, key, version_id, etag) ==
    [bucket |-> bucket, key |-> key, version_id |-> version_id, etag |-> etag]

NoEvent == S3Event("", <<>>, None, None)

PlanV1 == S3Event("raw", <<"products", "plan.md">>, Some("v1"), Some("e1"))
PlanV2 == S3Event("raw", <<"products", "plan.md">>, Some("v2"), Some("e2"))
Readme == S3Event("raw", <<"misc", "readme.md">>, None, Some("e3"))

Events == {PlanV1, PlanV2, Readme}

\* Two objects of one bucket whose key, or versionId, holds the ":" that
\* build_doc_id joins its three parts with.
ColonInKey == S3Event("raw", <<"notes", "a:b.md">>, Some("v1"), None)
ColonInToken == S3Event("raw", <<"notes", "a">>, Some("b.md:v1"), None)

IdEvents == {ColonInKey, ColonInToken}

\* len(markdown_to_text(fetch_markdown(bucket, key, version_id))): a stated
\* version has one content; without VersionId the current content is read,
\* which may have been replaced since the notification.
PlainLens(ev) ==
    IF ev = PlanV1 THEN {2500}
    ELSE IF ev = PlanV2 THEN {800}
    ELSE IF ev = ColonInKey THEN {1300}
    ELSE IF ev = ColonInToken THEN {800}
    ELSE {0, 1300}

VARIABLES
    text,        \* chunk_text: its argument
    chunk_size,  \* chunk_text: its argument
    overlap,     \* chunk_text: its argument
    start,       \* chunk_text: the loop's start offset
    chunks,      \* chunk_text: the list built so far
    spans,       \* chunk_text: the (start, end) of each append, in order
    ct_pc,       \* chunk_text: "loop" (at the while test) or "done" (returned)
    proc,        \* per worker: where lambda_handler / process_s3_event stands, and its locals
    store,       \* the processed bucket: key -> object body
    writes,      \* history: vector key -> number of store_vector calls that wrote it
    deniedSeen,  \* history: vector keys whose probe was answered access-denied while the record was stored
    completed,   \* history: the passes that completed, as (event, text length, manifest entries)
    clock,       \* passes started so far; datetime.now() of a pass
    overlapped,  \* history: doc_ids for which a pass began while another worker's pass for it was running
    stored_for   \* history: vector key -> the notification whose pass wrote the record last

ctvars == <<text, chunk_size, overlap, start, chunks, spans, ct_pc>>

pvars == <<proc, store, writes, deniedSeen, completed, clock, overlapped, stored_for>>

vars == <<text, chunk_size, overlap, start, chunks, spans, ct_pc,
          proc, store, writes, deniedSeen, completed, clock, overlapped, stored_for>>

Workers == {"w1", "w2"}

\* The exception that left process_s3_event: its type and the operation that
\* raised it ("" when none).
NoError == [type |-> "", op |-> ""]
Raised(type, op) == [type |-> type, op |-> op]

\* What the message of the exception names besides the underlying error's
\* text, by the operation that raised it: the f-strings of the raise
\* statements. vector_exists raises nothing of its own.
ErrorNames(error) ==
    IF error.type # "RuntimeError" THEN {}
    ELSE IF error.op = "fetch" THEN {"bucket", "key"}
    ELSE IF error.op = "embed_text" THEN {"model"}
    ELSE IF error.op = "store_vector" THEN {"chunk_id"}
    ELSE IF error.op = "put_manifest" THEN {"doc_id"}
    ELSE {}

\* A worker outside process_s3_event: no locals.
NoPass ==
    [pc |-> "idle", event |-> NoEvent, doc_id |-> "", plain_len |-> 0, chunks |-> <<>>,
     idx |-> 0, manifest |-> <<>>, created_at |-> 0, attempt |-> 0, responses |-> <<>>, sleeps |-> <<>>,
     embedding |-> <<>>, head |-> HeadOk, error |-> NoError,
     n_embed |-> 0, n_store |-> 0, n_manifest |-> 0, denied |-> FALSE]

\* No call of chunk_text is in progress.
ChunkIdle ==
    /\ text = <<>>
    /\ chunk_size = DefaultChunkSize
    /\ overlap = DefaultOverlap
    /\ start = 0
    /\ chunks = <<>>
    /\ spans = <<>>
    /\ ct_pc = "idle"

\* No invocation has run; the processed bucket is empty.
PipelineIdle ==
    /\ proc = [w \in Workers |-> NoPass]
    /\ store = <<>>
    /\ writes = <<>>
    /\ deniedSeen = {}
    /\ completed = {}
    /\ clock = 0
    /\ overlapped = {}
    /\ stored_for = <<>>

\* The (chunk_size, overlap) pairs chunk_text is applied with: 0 <= overlap <
\* chunk_size, small ones and the defaults.
SizePairs ==
    {p \in (1..MaxChunkSize) \X (0..MaxChunkSize) : p[2] < p[1]}
        \cup {<<DefaultChunkSize, DefaultOverlap>>}

\* A call chunk_text(text, chunk_size, overlap) that has just been entered.
InitChunk ==
    /\ \/ /\ text \in SmallTexts
          /\ \E p \in SizePairs : chunk_size = p[1] /\ overlap = p[2]
       \/ /\ text = ExampleText
          /\ chunk_size = DefaultChunkSize
          /\ overlap = DefaultOverlap
    /\ start = 0
    /\ chunks = <<>>
    /\ spans = <<>>
    /\ ct_pc = "loop"
    /\ PipelineIdle

\* "if not text: return []"
ChunkReturnEmpty ==
    /\ ct_pc = "loop"
    /\ Len(text) = 0
    /\ ct_pc' = "done"
    /\ UNCHANGED <<text, chunk_size, overlap, start, chunks, spans>>
    /\ UNCHANGED pvars

\* One iteration of the while loop that ends in "start = end - overlap".
ChunkStep ==
    /\ ct_pc = "loop"
    /\ Len(text) # 0
    /\ start < Len(text)
    /\ LET end == ChunkEnd(start, chunk_size, Len(text)) IN
        /\ end # Len(text)
        /\ chunks' = Append(chunks, Slice(text, start, end))
        /\ spans' = Append(spans, <<start, end>>)
        /\ start' = NextStart(end, overlap)
    /\ UNCHANGED <<text, chunk_size, overlap, ct_pc>>
    /\ UNCHANGED pvars

\* The iteration that reaches the end of the text: append, break, return.
ChunkLast ==
    /\ ct_pc = "loop"
    /\ Len(text) # 0
    /\ start < Len(text)
    /\ LET end == ChunkEnd(start, chunk_size, Len(text)) IN
        /\ end = Len(text)
        /\ chunks' = Append(chunks, Slice(text, start, end))
        /\ spans' = Append(spans, <<start, end>>)
    /\ ct_pc' = "done"
    /\ UNCHANGED <<text, chunk_size, overlap, start>>
    /\ UNCHANGED pvars

NextChunk == ChunkReturnEmpty \/ ChunkStep \/ ChunkLast

SpecChunk == InitChunk /\ [][NextChunk]_vars

\* A call of chunk_text that has been entered keeps running: the interpreter
\* takes the next iteration whenever there is one.
SpecChunkFair == SpecChunk /\ WF_vars(NextChunk)

\* ------------------------------------------------------------------------
\* lambda_handler and process_s3_event
\* ------------------------------------------------------------------------

Get(f, k) == IF k \in DOMAIN f THEN f[k] ELSE 0

\* s3_client.put_object on the processed bucket, when it succeeds.
PutObject(st, key, body) == (key :> body) @@ st

\* The answers of a put_object or get_object call.
CallAnswers == {"ok", "ClientError", "BotoCoreError"}

\* The manifest entry of chunk idx (the same dict on both branches of the loop).
ManifestEntry(p, i) ==
    [chunk_id |-> ChunkId(p.doc_id, i),
     doc_type |-> infer_doc_type(p.event.key),
     chunk_text_preview |-> Preview(p.chunks[i + 1]),
     source_s3_uri |-> SourceUri(p.event.bucket, p.event.key),
     length |-> p.chunks[i + 1][2] - p.chunks[i + 1][1],
     created_at |-> p.created_at]

\* the skip branch's entry with a mark of its own
SkippedEntryMarked(p, i) ==
    [chunk_id |-> ChunkId(p.doc_id, i),
     doc_type |-> infer_doc_type(p.event.key),
     chunk_text_preview |-> Preview(p.chunks[i + 1]),
     source_s3_uri |-> SourceUri(p.event.bucket, p.event.key),
     length |-> p.chunks[i + 1][2] - p.chunks[i + 1][1],
     created_at |-> p.created_at,
     from_cache |-> TRUE]

\* The manifest entry appended when vector_exists answered True: the dict of
\* the skip branch.
SkippedEntry(p, i) ==
    [chunk_id |-> ChunkId(p.doc_id, i),
     doc_type |-> infer_doc_type(p.event.key),
     chunk_text_preview |-> Preview(p.chunks[i + 1]),
     source_s3_uri |-> SourceUri(p.event.bucket, p.event.key),
     length |-> p.chunks[i + 1][2] - p.chunks[i + 1][1],
     created_at |-> p.created_at]

\* store_vector's payload for chunk idx.
VectorPayload(p, i) ==
    [id |-> ChunkId(p.doc_id, i),
     index |-> S3_VECTORS_INDEX,
     namespace |-> S3_VECTORS_NAMESPACE,
     embedding |-> p.embedding,
     metadata |-> [doc_id |-> p.doc_id,
                   source_s3_uri |-> SourceUri(p.event.bucket, p.event.key),
                   chunk_id |-> ChunkId(p.doc_id, i),
                   doc_type |-> infer_doc_type(p.event.key),
                   created_at |-> p.created_at,
                   chunk_text_preview |-> Preview(p.chunks[i + 1])]]

\* put_manifest's body.
ManifestBody(p) ==
    [doc_id |-> p.doc_id,
     source |-> [bucket |-> p.event.bucket, key |-> KeyString(p.event.key),
                 version_id |-> p.event.version_id],
     created_at |-> p.created_at,
     chunks |-> p.manifest]

\* the for loop leaving for put_manifest one chunk early
AfterChunkSkipsLast(p, i) == IF i + 2 < Len(p.chunks) THEN "probe" ELSE "manifest"

\* Where the for loop stands once chunk i is dealt with: the next chunk's
\* existence check, or put_manifest after the last chunk.
AfterChunk(p, i) == IF i + 1 < Len(p.chunks) THEN "probe" ELSE "manifest"

\* if error_code == "ThrottlingException" and attempt < max_retries - 1, retrying on any ClientError
ShouldRetryAnyClientError(resp, attempt) ==
    /\ resp.kind = "ClientError"
    /\ attempt < max_retries - 1

\* if error_code == "ThrottlingException" and attempt < max_retries - 1, one attempt short
ShouldRetryOneShort(resp, attempt) ==
    /\ resp.kind = "ClientError"
    /\ resp.code = "ThrottlingException"
    /\ attempt < max_retries - 2

\* if error_code == "ThrottlingException" and attempt < max_retries - 1
ShouldRetry(resp, attempt) ==
    /\ resp.kind = "ClientError"
    /\ resp.code = "ThrottlingException"
    /\ attempt < max_retries - 1

\* put_manifest's except clause without its raise: the pass goes on to return
AfterPutErrorSwallowed == "done"

\* put_manifest's except clause: raise RuntimeError(...) from exc
AfterPutError == "failed"

\* vector_exists(chunk_id) in place of vector_exists(vector_key)
ProbeKeyChunkId(chunk_id) == chunk_id

\* The key process_s3_event hands to vector_exists.
ProbeKey(chunk_id) == vector_object_key(chunk_id)

\* The pcs of a pass of process_s3_event that has not returned or raised yet.
Running == {"fetch", "probe", "embed", "store", "manifest"}

\* lambda_handler is entered (a new invocation on this worker).
Invoke(w) ==
    /\ proc[w].pc \in {"idle", "returned", "raised"}
    /\ clock < MaxPasses
    /\ proc' = [proc EXCEPT ![w] = [NoPass EXCEPT !.pc = "handler"]]
    /\ UNCHANGED <<store, writes, deniedSeen, completed, clock>>
    /\ UNCHANGED <<overlapped, stored_for>>
    /\ UNCHANGED ctvars

\* The loops of lambda_handler and process_sqs_record reach an s3 record:
\* process_s3_event reads it and derives doc_id.
BeginEvent(w, ev) ==
    /\ proc[w].pc = "handler"
    /\ clock < MaxPasses
    /\ clock' = clock + 1
    /\ proc' = [proc EXCEPT ![w] =
                   [NoPass EXCEPT !.pc = "fetch",
                                  !.event = ev,
                                  !.doc_id = build_doc_id(ev.bucket, ev.key, ev.version_id, ev.etag)]]
    /\ overlapped' =
           IF \E u \in Workers \ {w} :
                  /\ proc[u].pc \in Running
                  /\ proc[u].doc_id = build_doc_id(ev.bucket, ev.key, ev.version_id, ev.etag)
           THEN overlapped \cup {build_doc_id(ev.bucket, ev.key, ev.version_id, ev.etag)}
           ELSE overlapped
    /\ UNCHANGED stored_for
    /\ UNCHANGED <<store, writes, deniedSeen, completed>>
    /\ UNCHANGED ctvars

\* fetch_markdown, markdown_to_text, chunk_text and the empty manifest.
FetchOk(w, len) ==
    /\ proc[w].pc = "fetch"
    /\ len \in PlainLens(proc[w].event)
    /\ LET cs == ChunkSpans(len, DefaultChunkSize, DefaultOverlap) IN
       proc' = [proc EXCEPT ![w] =
                   [@ EXCEPT !.plain_len = len,
                             !.chunks = cs,
                             !.created_at = clock,
                             !.manifest = <<>>,
                             !.idx = 0,
                             !.pc = IF Len(cs) = 0 THEN "manifest" ELSE "probe"]]
    /\ UNCHANGED <<store, writes, deniedSeen, completed, clock>>
    /\ UNCHANGED <<overlapped, stored_for>>
    /\ UNCHANGED ctvars

\* fetch_markdown fails: ClientError and BotoCoreError become a RuntimeError,
\* a body that is not UTF-8 leaves as the UnicodeDecodeError it is.
FetchFail(w, err) ==
    /\ proc[w].pc = "fetch"
    /\ err \in {"ClientError", "BotoCoreError", "UnicodeDecodeError"}
    /\ proc' = [proc EXCEPT ![w] =
                   [@ EXCEPT !.pc = "failed",
                             !.error = IF err = "UnicodeDecodeError"
                                       THEN Raised("UnicodeDecodeError", "fetch")
                                       ELSE Raised("RuntimeError", "fetch")]]
    /\ UNCHANGED <<store, writes, deniedSeen, completed, clock>>
    /\ UNCHANGED <<overlapped, stored_for>>
    /\ UNCHANGED ctvars

\* vector_exists(vector_key) for chunk idx; on True the manifest entry is
\* appended and the loop continues, on False embed_text is entered, and any
\* other error of head_object propagates as it is.
Probe(w, answer) ==
    LET p == proc[w]
        key == ProbeKey(ChunkId(p.doc_id, p.idx))
        r == vector_exists(answer)
        isDenied == answer.kind = "ClientError" /\ answer.code \in AccessDeniedCodes
    IN
    /\ p.pc = "probe"
    /\ answer \in HeadAnswers(key \in DOMAIN store)
    /\ proc' = [proc EXCEPT ![w] =
                   IF r = "true"
                   THEN [@ EXCEPT !.manifest = Append(p.manifest, SkippedEntry(p, p.idx)),
                                  !.idx = p.idx + 1,
                                  !.pc = AfterChunk(p, p.idx)]
                   ELSE IF r = "false"
                   THEN [@ EXCEPT !.head = answer,
                                  !.denied = p.denied \/ isDenied,
                                  !.n_embed = p.n_embed + 1,
                                  !.attempt = 0,
                                  !.responses = <<>>,
                                  !.sleeps = <<>>,
                                  !.pc = "embed"]
                   ELSE [@ EXCEPT !.head = answer,
                                  !.denied = p.denied \/ isDenied,
                                  !.pc = "failed",
                                  !.error = Raised(answer.kind, "vector_exists")]]
    /\ deniedSeen' = IF isDenied /\ key \in DOMAIN store
                     THEN deniedSeen \cup {key} ELSE deniedSeen
    /\ UNCHANGED <<store, writes, completed, clock>>
    /\ UNCHANGED <<overlapped, stored_for>>
    /\ UNCHANGED ctvars

\* One attempt of embed_text's loop: invoke_model and what follows it, the
\* sleep included; jitter and pace are what random.uniform returns.
EmbedAttempt(w, resp, jitter, pace) ==
    LET p == proc[w] IN
    /\ p.pc = "embed"
    /\ p.attempt < max_retries
    /\ proc' = [proc EXCEPT ![w] =
                   IF resp.kind = "ok"
                   THEN IF Falsy(EmbeddingOf(resp))
                        THEN [@ EXCEPT !.responses = Append(p.responses, resp),
                                       !.pc = "failed",
                                       !.error = Raised("RuntimeError", "embed_text: missing vector")]
                        ELSE [@ EXCEPT !.responses = Append(p.responses, resp),
                                       !.sleeps = Append(p.sleeps, Sleep("pacing", p.attempt, pace)),
                                       !.embedding = EmbeddingOf(resp).value,
                                       !.pc = "store"]
                   ELSE IF ShouldRetry(resp, p.attempt)
                   THEN [@ EXCEPT !.responses = Append(p.responses, resp),
                                  !.sleeps = Append(p.sleeps, Sleep("backoff", p.attempt, Delay(p.attempt, jitter))),
                                  !.attempt = p.attempt + 1]
                   ELSE [@ EXCEPT !.responses = Append(p.responses, resp),
                                  !.pc = "failed",
                                  !.error = Raised("RuntimeError", "embed_text")]]
    /\ UNCHANGED <<store, writes, deniedSeen, completed, clock>>
    /\ UNCHANGED <<overlapped, stored_for>>
    /\ UNCHANGED ctvars

\* embed_text's attempt in the runs over documents, where the time slept acts
\* on nothing: the middle of both ranges.
EmbedCall(w, resp) == EmbedAttempt(w, resp, 100, 100)

\* store_vector for chunk idx, then the manifest entry.
StoreVector(w, answer) ==
    LET p == proc[w]
        key == vector_object_key(ChunkId(p.doc_id, p.idx))
    IN
    /\ p.pc = "store"
    /\ answer \in CallAnswers
    /\ IF answer = "ok"
       THEN /\ store' = PutObject(store, key, VectorPayload(p, p.idx))
            /\ writes' = (key :> (Get(writes, key) + 1)) @@ writes
            /\ stored_for' = (key :> p.event) @@ stored_for
            /\ proc' = [proc EXCEPT ![w] =
                           [@ EXCEPT !.n_store = p.n_store + 1,
                                     !.manifest = Append(p.manifest, ManifestEntry(p, p.idx)),
                                     !.idx = p.idx + 1,
                                     !.head = HeadOk,
                                     !.attempt = 0,
                                     !.responses = <<>>,
                                     !.sleeps = <<>>,
                                     !.embedding = <<>>,
                                     !.pc = AfterChunk(p, p.idx)]]
       ELSE /\ proc' = [proc EXCEPT ![w] =
                           [@ EXCEPT !.n_store = p.n_store + 1,
                                     !.pc = "failed",
                                     !.error = Raised("RuntimeError", "store_vector")]]
            /\ UNCHANGED <<store, writes, stored_for>>
    /\ UNCHANGED <<deniedSeen, completed, clock>>
    /\ UNCHANGED overlapped
    /\ UNCHANGED ctvars

\* put_manifest after the loop, and the return of process_s3_event.
PutManifest(w, answer) ==
    LET p == proc[w]
        key == ManifestKey(p.doc_id)
    IN
    /\ p.pc = "manifest"
    /\ answer \in CallAnswers
    /\ IF answer = "ok"
       THEN /\ store' = PutObject(store, key, ManifestBody(p))
            /\ proc' = [proc EXCEPT ![w] =
                           [@ EXCEPT !.n_manifest = p.n_manifest + 1, !.pc = "done"]]
       ELSE /\ proc' = [proc EXCEPT ![w] =
                           [@ EXCEPT !.n_manifest = p.n_manifest + 1,
                                     !.pc = AfterPutError,
                                     !.error = IF AfterPutError = "failed"
                                               THEN Raised("RuntimeError", "put_manifest")
                                               ELSE NoError]]
            /\ UNCHANGED store
    /\ UNCHANGED <<writes, deniedSeen, completed, clock>>
    /\ UNCHANGED <<overlapped, stored_for>>
    /\ UNCHANGED ctvars

\* process_s3_event has returned: back in the loops of the handler.
PassReturn(w) ==
    LET p == proc[w] IN
    /\ p.pc = "done"
    /\ completed' = completed \cup
           {[event |-> p.event, plain_len |-> p.plain_len, entries |-> Len(p.manifest)]}
    /\ proc' = [proc EXCEPT ![w] = [NoPass EXCEPT !.pc = "handler"]]
    /\ UNCHANGED <<store, writes, deniedSeen, clock>>
    /\ UNCHANGED <<overlapped, stored_for>>
    /\ UNCHANGED ctvars

\* lambda_handler's except clause without its raise: on to the next record
AfterHandlerExceptSwallowed == "handler"

\* lambda_handler's except clause ends in "raise": the invocation is over.
AfterHandlerExcept == "raised"

\* The exception reaches lambda_handler's except clause: print, raise.
HandlerRaise(w) ==
    /\ proc[w].pc = "failed"
    /\ proc' = [proc EXCEPT ![w] = [NoPass EXCEPT !.pc = AfterHandlerExcept, !.error = proc[w].error]]
    /\ UNCHANGED <<store, writes, deniedSeen, completed, clock>>
    /\ UNCHANGED <<overlapped, stored_for>>
    /\ UNCHANGED ctvars

\* No record is left: return {"status": "ok", ...}.
HandlerReturn(w) ==
    /\ proc[w].pc = "handler"
    /\ proc' = [proc EXCEPT ![w] = [NoPass EXCEPT !.pc = "returned"]]
    /\ UNCHANGED <<store, writes, deniedSeen, completed, clock>>
    /\ UNCHANGED <<overlapped, stored_for>>
    /\ UNCHANGED ctvars

Init == ChunkIdle /\ PipelineIdle

\* Invocations run one after the other, on one worker.
SeqWorkers == {"w1"}

Next ==
    \E w \in SeqWorkers :
        \/ Invoke(w)
        \/ \E ev \in Events : BeginEvent(w, ev)
        \/ \E len \in UNION {PlainLens(ev) : ev \in Events} : FetchOk(w, len)
        \/ \E err \in {"ClientError", "BotoCoreError", "UnicodeDecodeError"} : FetchFail(w, err)
        \/ \E answer \in HeadAnswers(TRUE) \cup HeadAnswers(FALSE) : Probe(w, answer)
        \/ \E resp \in InvokeAnswers : EmbedCall(w, resp)
        \/ \E answer \in CallAnswers : StoreVector(w, answer)
        \/ \E answer \in CallAnswers : PutManifest(w, answer)
        \/ PassReturn(w)
        \/ HandlerRaise(w)
        \/ HandlerReturn(w)

Spec == Init /\ [][Next]_vars

\* The sequential runs over the notifications of IdEvents.
NextId ==
    \E w \in SeqWorkers :
        \/ Invoke(w)
        \/ \E ev \in IdEvents : BeginEvent(w, ev)
        \/ \E len \in UNION {PlainLens(ev) : ev \in IdEvents} : FetchOk(w, len)
        \/ \E err \in {"ClientError", "BotoCoreError", "UnicodeDecodeError"} : FetchFail(w, err)
        \/ \E answer \in HeadAnswers(TRUE) \cup HeadAnswers(FALSE) : Probe(w, answer)
        \/ \E resp \in InvokeAnswers : EmbedCall(w, resp)
        \/ \E answer \in CallAnswers : StoreVector(w, answer)
        \/ \E answer \in CallAnswers : PutManifest(w, answer)
        \/ PassReturn(w)
        \/ HandlerRaise(w)
        \/ HandlerReturn(w)

SpecId == Init /\ [][NextId]_vars

\* The runs of one pass over one document of one chunk, with every jitter and
\* pacing value.
EmbedEvents == {PlanV2}

EmbedInvokeAnswers ==
    {Throttled, InvokeClientError("ValidationException"), InvokeOtherError,
     InvokeOk(Field(Vec), Missing), InvokeOk(Missing, Missing)}

NextEmbed ==
    \E w \in SeqWorkers :
        \/ Invoke(w)
        \/ \E ev \in EmbedEvents : BeginEvent(w, ev) /\ clock = 0
        \/ \E len \in UNION {PlainLens(ev) : ev \in EmbedEvents} : FetchOk(w, len)
        \/ \E err \in {"ClientError", "BotoCoreError", "UnicodeDecodeError"} : FetchFail(w, err)
        \/ \E answer \in HeadAnswers(TRUE) \cup HeadAnswers(FALSE) : Probe(w, answer)
        \/ \E resp \in EmbedInvokeAnswers, jitter \in Jitters, pace \in Pacings :
              EmbedAttempt(w, resp, jitter, pace)
        \/ \E answer \in CallAnswers : StoreVector(w, answer)
        \/ \E answer \in CallAnswers : PutManifest(w, answer)
        \/ PassReturn(w)
        \/ HandlerRaise(w)
        \/ HandlerReturn(w)

SpecEmbed == Init /\ [][NextEmbed]_vars

\* Throttled answers one embed_text call gets in the concurrent runs.
MaxConcThrottles == 1

\* The concurrent runs: a notification for one document delivered twice, each
\* delivery to a worker of its own, the two passes interleaved in any way.
ConcEvents == {Readme}

\* What invoke_model answers in the concurrent runs: a throttle, another
\* error, a vector, or a body without one.
ConcInvokeAnswers ==
    {Throttled, InvokeClientError("ValidationException"),
     InvokeOk(Field(Vec), Missing), InvokeOk(Missing, Field(OtherVec)), InvokeOk(Missing, Missing)}

\* What head_object answers in the concurrent runs: success, and one code of
\* each kind of ClientError.
ConcHeadAnswers ==
    {HeadOk, HeadClientError("404"), HeadClientError("403"), HeadClientError("500")}

NextConc ==
    \E w \in Workers :
        \/ Invoke(w) /\ clock < Cardinality(Workers)
        \/ \E ev \in ConcEvents : BeginEvent(w, ev) /\ clock < Cardinality(Workers)
        \/ \E len \in UNION {PlainLens(ev) : ev \in ConcEvents} : FetchOk(w, len)
        \/ \E err \in {"ClientError", "BotoCoreError", "UnicodeDecodeError"} : FetchFail(w, err)
        \/ \E answer \in ConcHeadAnswers : Probe(w, answer)
        \/ \E resp \in ConcInvokeAnswers :
              /\ resp = Throttled => proc[w].attempt < MaxConcThrottles
              /\ EmbedCall(w, resp)
        \/ \E answer \in CallAnswers : StoreVector(w, answer)
        \/ \E answer \in CallAnswers : PutManifest(w, answer)
        \/ PassReturn(w)
        \/ HandlerRaise(w)
        \/ HandlerReturn(w)

SpecConc == Init /\ [][NextConc]_vars

\* ------------------------------------------------------------------------
\* Claims about process_s3_event and embed_text (checked under Spec)
\* ------------------------------------------------------------------------

\* The pcs of a worker inside process_s3_event once the text is fetched.
InPass == {"probe", "embed", "store", "manifest", "done", "failed"}

DocId(ev) == build_doc_id(ev.bucket, ev.key, ev.version_id, ev.etag)

\* The vector key of chunk i of the pass p.
VectorKey(p, i) == vector_object_key(ChunkId(p.doc_id, i))

\* An earlier pass completed for the same event with the same text.
CompletedBefore(p) ==
    {c \in completed : c.event = p.event /\ c.plain_len = p.plain_len}

IsDenied(answer) == answer.kind = "ClientError" /\ answer.code \in AccessDeniedCodes
IsNotFound(answer) == answer.kind = "ClientError" /\ answer.code \in NotFoundCodes

\* C1: when a pass has completed for an event and the same event with the
\* same text is processed again with no probe answered access-denied, the
\* second pass enters embed_text zero times (no embedding-service call) and
\* calls store_vector zero times, and the manifest it writes has as many
\* entries as the first pass's.
C1_IdempotentReprocessing ==
    \A w \in Workers :
        LET p == proc[w] IN
        (p.pc \in InPass /\ ~p.denied /\ CompletedBefore(p) # {}) =>
            /\ p.n_embed = 0
            /\ p.n_store = 0
            /\ p.responses = <<>>
            /\ p.pc = "done" =>
                 \A c \in CompletedBefore(p) :
                    /\ Len(p.manifest) = c.entries
                    /\ Len(store[ManifestKey(p.doc_id)].chunks) = c.entries

\* C1's case: the 3-chunk document completes a second time.
C1_Witness ==
    \E w \in Workers :
        /\ proc[w].pc = "done"
        /\ ~proc[w].denied
        /\ CompletedBefore(proc[w]) # {}
        /\ Len(proc[w].manifest) = 3

\* C2: over sequential passes a vector record is written more than once only
\* if an existence probe for it was answered access-denied while it was
\* stored (so never, when no probe is answered access-denied); a pass is in
\* embed or store for a record that is already stored only after such an
\* answer.
C2_AtMostOneWrite ==
    /\ \A k \in DOMAIN writes : writes[k] > 1 => k \in deniedSeen
    /\ deniedSeen = {} => \A k \in DOMAIN writes : writes[k] <= 1
    /\ \A w \in Workers :
        LET p == proc[w] IN
        (p.pc \in {"embed", "store"} /\ VectorKey(p, p.idx) \in DOMAIN store)
            => (IsDenied(p.head) /\ VectorKey(p, p.idx) \in deniedSeen)

\* C2's case: a pass aborted after storing chunk 0, and the redelivered pass
\* went on past chunk 0 without writing it again.
C2_Witness ==
    \E w \in Workers :
        LET p == proc[w] IN
        /\ p.pc = "store"
        /\ p.idx = 1
        /\ p.n_store = 0
        /\ completed = {}
        /\ Get(writes, VectorKey(p, 0)) = 1

\* C3: whenever a manifest is stored, every chunk_id it lists has a vector
\* record stored at its vector key.
C3_ManifestImpliesVectors ==
    \A ev \in Events :
        LET k == ManifestKey(DocId(ev)) IN
        k \in DOMAIN store =>
            \A i \in 1..Len(store[k].chunks) :
                vector_object_key(store[k].chunks[i].chunk_id) \in DOMAIN store

\* C3's case: a stored manifest that lists several chunks, after a pass that
\* was answered access-denied.
C3_Witness ==
    /\ ManifestKey(DocId(PlanV1)) \in DOMAIN store
    /\ Len(store[ManifestKey(DocId(PlanV1))].chunks) = 3
    /\ deniedSeen # {}

\* The manifest of the pass p is the one stored.
ManifestOfPassStored(p) ==
    /\ ManifestKey(p.doc_id) \in DOMAIN store
    /\ store[ManifestKey(p.doc_id)].created_at = p.created_at

\* C4: a pass calls put_manifest at most once; it has done so, with the
\* manifest stored, when it completes, and only after the last chunk was
\* dealt with; a pass that failed in fetch, existence check, embed or store
\* has not called it and no manifest of that pass is stored.
C4_ManifestOnceAtEnd ==
    \A w \in Workers :
        LET p == proc[w] IN
        /\ p.n_manifest <= 1
        /\ p.pc = "done" =>
            (p.n_manifest = 1 /\ ManifestOfPassStored(p) /\ p.idx = Len(p.chunks))
        /\ p.pc \in {"fetch", "probe", "embed", "store", "manifest"} => p.n_manifest = 0
        /\ p.pc = "manifest" => (p.idx = Len(p.chunks) /\ Len(p.manifest) = Len(p.chunks))
        /\ (p.pc = "failed" /\ p.error.op # "put_manifest") => p.n_manifest = 0
        /\ p.pc \in {"probe", "embed", "store", "manifest", "failed"} => ~ManifestOfPassStored(p)

\* C4's case: a pass that failed at the last chunk's store, after an older
\* pass had stored a manifest for the document.
C4_Witness ==
    \E w \in Workers :
        LET p == proc[w] IN
        /\ p.pc = "failed"
        /\ p.error.op = "store_vector"
        /\ p.idx = 2
        /\ ManifestKey(p.doc_id) \in DOMAIN store

\* C5: the manifest a completed pass has written holds one entry per chunk of
\* chunk_text, entry i with chunk_id "{doc_id}:{i}" and that chunk's length,
\* whichever chunks were embedded and whichever were found stored; for an
\* empty text it has no entry and the pass made no embed or store call.
C5_ManifestEntries ==
    \A w \in Workers :
        LET p == proc[w]
            cs == ChunkSpans(p.plain_len, DefaultChunkSize, DefaultOverlap)
        IN
        p.pc = "done" =>
            LET m == store[ManifestKey(p.doc_id)] IN
            /\ m.doc_id = p.doc_id
            /\ Len(m.chunks) = Len(cs)
            /\ \A i \in 1..Len(cs) :
                /\ m.chunks[i].chunk_id = p.doc_id \o ":" \o ToString(i - 1)
                /\ m.chunks[i].length = cs[i][2] - cs[i][1]
            /\ p.plain_len = 0 =>
                (m.chunks = <<>> /\ p.n_embed = 0 /\ p.n_store = 0)

\* C5's case: a completed pass that embedded some chunks and found others.
C5_Witness ==
    \E w \in Workers :
        LET p == proc[w] IN
        /\ p.pc = "done"
        /\ Len(p.chunks) = 3
        /\ p.n_store = 1

\* C5's other case: a completed pass over an empty text.
C5_WitnessEmpty ==
    \E w \in Workers : proc[w].pc = "done" /\ proc[w].plain_len = 0

AllThrottled(rs) == \A i \in 1..Len(rs) : rs[i] = Throttled

\* All answers but the last.
Front(rs) == SubSeq(rs, 1, Len(rs) - 1)

\* C6: embed_text makes min(k+1, 8) calls against a service that throttles
\* its first k calls and then answers a non-empty vector: it returns (pc
\* "store") after k <= 7 throttles and one more call, with that vector; it
\* fails after 8 calls when all 8 were throttled; it never makes more than 8
\* calls and never returns an empty vector.
C6_EmbedCallCount ==
    \A w \in Workers :
        LET p == proc[w]
            n == Len(p.responses)
        IN
        /\ n <= 8
        /\ p.pc = "embed" => (AllThrottled(p.responses) /\ n = p.attempt /\ n <= 7)
        /\ p.pc = "store" =>
            /\ n >= 1
            /\ AllThrottled(Front(p.responses))
            /\ p.responses[n].kind = "ok"
            /\ p.embedding # <<>>
            /\ p.embedding = EmbeddingOf(p.responses[n]).value
        /\ (p.pc = "failed" /\ n >= 1 /\ AllThrottled(p.responses)) =>
            (n = 8 /\ p.error = Raised("RuntimeError", "embed_text"))
        /\ (p.pc = "failed" /\ n >= 1) => AllThrottled(Front(p.responses))

\* C6's case: two throttles, then the vector, in 3 calls.
C6_Witness ==
    \E w \in Workers :
        /\ proc[w].pc = "store"
        /\ Len(proc[w].responses) = 3
        /\ AllThrottled(Front(proc[w].responses))

\* C6's other case: 8 throttles, and the call fails.
C6_WitnessExhausted ==
    \E w \in Workers :
        /\ proc[w].pc = "failed"
        /\ Len(proc[w].responses) = 8
        /\ AllThrottled(proc[w].responses)

\* An answer embed_text must not retry: an error that is not a throttle, or
\* a body whose vector is missing or empty.
HardAnswer(resp) ==
    \/ resp.kind # "ok" /\ resp # Throttled
    \/ resp.kind = "ok" /\ Falsy(EmbeddingOf(resp))

\* C7: an answer that is not a throttle is the last call of its embed_text;
\* when it is an error, or a body with a missing or empty vector, embed_text
\* has failed with it.
C7_RetryOnlyOnThrottle ==
    \A w \in Workers :
        LET p == proc[w] IN
        \A i \in 1..Len(p.responses) :
            /\ p.responses[i] # Throttled => (i = Len(p.responses) /\ p.pc # "embed")
            /\ HardAnswer(p.responses[i]) =>
                (p.pc = "failed" /\ p.error.type = "RuntimeError" /\ p.n_store < p.n_embed)

\* C7's case: a non-throttling error after a throttle, with attempts left.
C7_Witness ==
    \E w \in Workers :
        LET p == proc[w] IN
        /\ p.pc = "failed"
        /\ Len(p.responses) = 2
        /\ p.responses[2] = InvokeClientError("ValidationException")

\* C7's other case: a body with an empty vector on the first attempt.
C7_WitnessEmptyVector ==
    \E w \in Workers :
        LET p == proc[w] IN
        /\ p.pc = "failed"
        /\ Len(p.responses) = 1
        /\ p.responses[1] = InvokeOk(Field(<<>>), Missing)

\* C8: after a probe answered not-found or access-denied the pass is
\* embedding or storing that chunk (or failed there), never aborted by
\* vector_exists and never past the chunk without a store; a pass aborted by
\* vector_exists got another error, which is the one that propagates.
C8_DeniedIsAbsent ==
    \A w \in Workers :
        LET p == proc[w] IN
        /\ p.pc \in {"embed", "store"} => (IsNotFound(p.head) \/ IsDenied(p.head))
        /\ (p.pc \in InPass /\ (IsNotFound(p.head) \/ IsDenied(p.head))) =>
            \/ p.pc \in {"embed", "store"}
            \/ p.pc = "failed" /\ p.error.op \in {"embed_text", "embed_text: missing vector", "store_vector"}
        /\ (p.pc = "failed" /\ p.error.op = "vector_exists") =>
            /\ ~IsNotFound(p.head) /\ ~IsDenied(p.head) /\ p.head # HeadOk
            /\ p.error.type = p.head.kind
        /\ (p.pc \in InPass /\ p.denied /\ p.pc # "failed") =>
            p.n_embed >= 1

\* C8's case: a completed pass that was answered access-denied for the first
\* chunk of a 3-chunk document already stored, and went on to the others.
C8_Witness ==
    \E w \in Workers :
        LET p == proc[w] IN
        /\ p.pc = "done"
        /\ p.denied
        /\ Len(p.chunks) = 3
        /\ p.n_store = 1
        /\ Get(writes, VectorKey(p, 0)) = 2

\* ------------------------------------------------------------------------
\* Claims about chunk_text (checked under SpecChunk)
\* ------------------------------------------------------------------------

\* The first chunk followed by each later chunk without its first ov characters.
RECURSIVE JoinNonOverlapping(_, _, _)
JoinNonOverlapping(cs, ov, i) ==
    IF i > Len(cs) THEN <<>>
    ELSE (IF i = 1 THEN cs[1] ELSE SubSeq(cs[i], ov + 1, Len(cs[i])))
             \o JoinNonOverlapping(cs, ov, i + 1)

\* Position p (0-based) of the text lies in one of the appended slices.
Covered(p) == \E i \in 1..Len(spans) : spans[i][1] <= p /\ p < spans[i][2]

\* C9: when chunk_text returns, its chunks cover every position of [0, L)
\* with no gap between one chunk and the next, and the first chunk followed
\* by every later chunk minus its first `overlap` characters is the text.
C9_CoverAndReconstruct ==
    ct_pc = "done" =>
        /\ \A p \in 0..(Len(text) - 1) : Covered(p)
        /\ \A i \in 1..(Len(spans) - 1) : spans[i + 1][1] <= spans[i][2]
        /\ Len(text) > 0 => (spans[1][1] = 0 /\ spans[Len(spans)][2] = Len(text))
        /\ JoinNonOverlapping(chunks, overlap, 1) = text

\* C9's case: a returned call that produced several overlapping chunks.
C9_Witness ==
    /\ ct_pc = "done"
    /\ Len(chunks) >= 3
    /\ overlap > 0
    /\ Len(text) <= MaxTextLen

\* C10: chunk i (0-based) is text[i*(C-O) : min(L, i*(C-O)+C)]; no chunk is
\* longer than C, every chunk but the last has length C, adjacent chunks
\* share exactly O characters, and the 2500-character text with the
\* defaults gives [0,1200), [1000,2200), [2000,2500).
C10_ChunkFormula ==
    ct_pc = "done" =>
        LET stride == chunk_size - overlap
            L == Len(text)
        IN
        /\ Len(spans) = Len(chunks)
        /\ \A i \in 1..Len(chunks) :
            /\ spans[i] = <<(i - 1) * stride, Min(L, (i - 1) * stride + chunk_size)>>
            /\ chunks[i] = Slice(text, (i - 1) * stride, Min(L, (i - 1) * stride + chunk_size))
            /\ Len(chunks[i]) <= chunk_size
            /\ i < Len(chunks) => Len(chunks[i]) = chunk_size
        /\ \A i \in 1..(Len(chunks) - 1) :
            /\ spans[i][2] - spans[i + 1][1] = overlap
            /\ Len(chunks[i + 1]) >= overlap
            /\ SubSeq(chunks[i], chunk_size - overlap + 1, chunk_size)
                   = SubSeq(chunks[i + 1], 1, overlap)
        /\ (L = 2500 /\ chunk_size = DefaultChunkSize /\ overlap = DefaultOverlap)
               => spans = << <<0, 1200>>, <<1000, 2200>>, <<2000, 2500>> >>

\* C10's case: the example document chunked with the defaults.
C10_Witness ==
    /\ ct_pc = "done"
    /\ Len(text) = 2500
    /\ chunk_size = DefaultChunkSize
    /\ overlap = DefaultOverlap
    /\ Len(chunks) = 3

\* C11: every call of chunk_text with 0 <= overlap < chunk_size returns; the
\* start offset is strictly larger after every iteration that loops; the
\* call returns no chunk for the empty text and the whole text as its one
\* chunk for a non-empty text of length at most chunk_size.
C11_Terminates ==
    /\ <>(ct_pc = "done")
    /\ [][(ct_pc = "loop" /\ ct_pc' = "loop") => start' > start]_ctvars
    /\ [](ct_pc = "done" =>
            /\ Len(text) = 0 => chunks = <<>>
            /\ (Len(text) > 0 /\ Len(text) <= chunk_size) => chunks = <<text>>)

\* C11's case: a call that looped more than once and returned.
C11_Witness ==
    /\ ct_pc = "done"
    /\ Len(chunks) >= 3
    /\ start > 0

\* C11's other cases: the empty text, and a text that fits one chunk.
C11_WitnessEmpty == ct_pc = "done" /\ text = <<>> /\ chunks = <<>>
C11_WitnessOneChunk == ct_pc = "done" /\ Len(text) = chunk_size /\ chunks = <<text>>

\* C12: once a pass has failed (in fetch, or at chunk idx in the existence
\* check, embed or store), the vector records of the chunks before idx are
\* stored and stay so, the worker's next step is the exception leaving
\* lambda_handler with the same error and nothing written, and after that
\* the worker does nothing but enter a new invocation: no further probe,
\* embed, store or put_manifest, no later record, no "ok" return.
C12_AbortPropagates ==
    /\ [](\A w \in Workers :
            proc[w].pc = "failed" =>
                \A j \in 0..(proc[w].idx - 1) : VectorKey(proc[w], j) \in DOMAIN store)
    /\ [][\A w \in Workers :
            proc[w].pc = "failed" =>
                \/ proc'[w] = proc[w]
                \/ /\ proc'[w].pc = "raised"
                   /\ proc'[w].error = proc[w].error
                   /\ store' = store
                   /\ writes' = writes]_vars
    /\ [][\A w \in Workers :
            proc[w].pc = "raised" =>
                \/ proc'[w] = proc[w]
                \/ /\ proc'[w] = [NoPass EXCEPT !.pc = "handler"]
                   /\ store' = store
                   /\ writes' = writes]_vars

\* C12's case: a pass that stored chunk 0 and failed in embed_text at chunk 1.
C12_Witness ==
    \E w \in Workers :
        LET p == proc[w] IN
        /\ p.pc = "failed"
        /\ p.idx = 1
        /\ p.n_store = 1
        /\ p.error.op = "embed_text"
        /\ VectorKey(p, 0) \in DOMAIN store

\* C12's other case: the exception has left lambda_handler after a fetch failure.
C12_WitnessRaised ==
    \E w \in Workers : proc[w].pc = "raised" /\ proc[w].error.op = "fetch"

\* ------------------------------------------------------------------------
\* Claims about concurrent deliveries (checked under SpecConc)
\* ------------------------------------------------------------------------

\* The doc_ids whose vector keys include k.
DocsOfKey(k) ==
    {DocId(ev) : ev \in {e \in Events :
        \E i \in 0..2 : k = vector_object_key(ChunkId(DocId(e), i))}}

\* C13: with two workers a vector record can be written twice although no
\* probe was answered access-denied, both workers having embedded the chunk;
\* this happens only for a document whose passes overlapped (both existence
\* checks answered absent before either write).
C13_DuplicateOnlyWhenOverlapped ==
    \A k \in DOMAIN writes :
        (writes[k] > 1 /\ k \notin deniedSeen) => DocsOfKey(k) \cap overlapped # {}

\* C13's case: both workers were answered not-found for chunk 0, both
\* embedded it, and the record has been written twice.
C13_Witness ==
    /\ \A w \in Workers :
        /\ proc[w].pc \in {"probe", "manifest"}
        /\ proc[w].event = Readme
        /\ proc[w].idx = 1
        /\ proc[w].n_embed = 1
        /\ proc[w].n_store = 1
        /\ ~proc[w].denied
    /\ writes[vector_object_key(ChunkId(DocId(Readme), 0))] = 2
    /\ deniedSeen = {}

\* C13's interleaving: both existence checks have answered absent and neither
\* worker has written yet.
C13_WitnessBothAbsent ==
    /\ \A w \in Workers :
        /\ proc[w].pc = "store"
        /\ proc[w].event = Readme
        /\ proc[w].idx = 0
        /\ IsNotFound(proc[w].head)
    /\ vector_object_key(ChunkId(DocId(Readme), 0)) \notin DOMAIN store

\* Worker w's step writes the vector record of its chunk over a record that
\* is already stored, after a probe that answered not-found: the second write
\* of the check-then-store race.
RaceOverwrite(w) ==
    /\ proc[w].pc = "store"
    /\ IsNotFound(proc[w].head)
    /\ VectorKey(proc[w], proc[w].idx) \in DOMAIN store
    /\ proc'[w].n_store = proc[w].n_store + 1
    /\ proc'[w].pc # "failed"

\* Both workers have completed a pass for one document with the same text.
BothCompleted ==
    \A w, u \in Workers :
        /\ proc[w].pc = "done"
        /\ proc[w].doc_id = proc[u].doc_id
        /\ proc[w].plain_len = proc[u].plain_len

\* One record per chunk_id of the document, and a manifest listing them all.
OneRecordPerChunk(p) ==
    /\ \A i \in 0..(Len(p.chunks) - 1) :
        /\ VectorKey(p, i) \in DOMAIN store
        /\ store[VectorKey(p, i)].id = ChunkId(p.doc_id, i)
    /\ ManifestKey(p.doc_id) \in DOMAIN store
    /\ Len(store[ManifestKey(p.doc_id)].chunks) = Len(p.chunks)
    /\ \A i \in 1..Len(p.chunks) :
        store[ManifestKey(p.doc_id)].chunks[i].chunk_id = ChunkId(p.doc_id, i - 1)

\* Two vector payloads that differ at most in metadata.created_at and in the
\* embedding the service answered.
SameButStampAndEmbedding(a, b) ==
    /\ a.id = b.id
    /\ a.index = b.index
    /\ a.namespace = b.namespace
    /\ [a.metadata EXCEPT !.created_at = 0] = [b.metadata EXCEPT !.created_at = 0]

\* C14 as claimed: when both workers complete, the store holds one record
\* per chunk_id and the manifest lists every chunk, and the race's second
\* write leaves the stored record as it was (identical content).
C14_RaceBenignAsClaimed ==
    /\ [](BothCompleted => \A w \in Workers : OneRecordPerChunk(proc[w]))
    /\ [][\A w \in Workers :
            RaceOverwrite(w) =>
                store'[VectorKey(proc[w], proc[w].idx)] = store[VectorKey(proc[w], proc[w].idx)]]_vars

\* C14 amended: when both workers complete, the store holds one record per
\* chunk_id and the manifest lists every chunk; the race's second write
\* replaces the record by one that differs at most in metadata.created_at
\* and in the embedding answered to the second writer: its created_at is the
\* second writer's own and its embedding the one answered to that writer.
C14_RaceBenignUpToStamp ==
    /\ [](BothCompleted => \A w \in Workers : OneRecordPerChunk(proc[w]))
    /\ [][\A w \in Workers :
            RaceOverwrite(w) =>
                LET k == VectorKey(proc[w], proc[w].idx) IN
                /\ SameButStampAndEmbedding(store'[k], store[k])
                /\ store'[k].metadata.created_at = proc[w].created_at
                /\ store'[k].embedding = proc[w].embedding]_vars

\* C14's case: both workers completed the 2-chunk document after racing on
\* chunk 0, which was written twice.
C14_Witness ==
    /\ BothCompleted
    /\ \A w \in Workers : Len(proc[w].chunks) = 2 /\ proc[w].n_store >= 1 /\ ~proc[w].denied
    /\ writes[vector_object_key(ChunkId(DocId(Readme), 0))] = 2

\* The race's second write changed the stored record: its timestamp.
C14_WitnessStampChanged ==
    \E k \in DOMAIN writes :
        /\ writes[k] = 2
        /\ k \notin deniedSeen
        /\ \E w \in Workers : proc[w].created_at # store[k].metadata.created_at /\ proc[w].n_store >= 1
        /\ BothCompleted

\* The race's second write is about to change the stored record's embedding.
C14_WitnessEmbeddingDiffers ==
    \E w \in Workers :
        /\ proc[w].pc = "store"
        /\ IsNotFound(proc[w].head)
        /\ VectorKey(proc[w], proc[w].idx) \in DOMAIN store
        /\ store[VectorKey(proc[w], proc[w].idx)].embedding # proc[w].embedding

\* ------------------------------------------------------------------------
\* Claims about build_doc_id (checked under Spec)
\* ------------------------------------------------------------------------

\* The notifications of the object of ev whose versionId / eTag differ from
\* ev's while token = version_id or etag or "" is the same.
SameToken(ev) ==
    LET t == Token(ev.version_id, ev.etag)
        opts == {None, Some(""), Some(t), Some("zz")}
    IN {S3Event(ev.bucket, ev.key, v, e) : v \in opts, e \in opts}
           \cap {n \in [bucket : {ev.bucket}, key : {ev.key}, version_id : opts, etag : opts] :
                    Token(n.version_id, n.etag) = t}

\* Worker w's step is a probe that found the record and skipped the chunk.
SkipStep(w) ==
    /\ proc[w].pc = "probe"
    /\ Len(proc'[w].manifest) = Len(proc[w].manifest) + 1

SameVersion(e1, e2) ==
    /\ e1.bucket = e2.bucket
    /\ e1.key = e2.key
    /\ Token(e1.version_id, e1.etag) = Token(e2.version_id, e2.etag)

C15_WitnessRepeat ==
    /\ proc["w1"].event = PlanV1
    /\ proc["w1"].n_embed = 0
    /\ Len(proc["w1"].manifest) = 3

\* ------------------------------------------------------------------------
\* Claims about chunk_id (checked under SpecId)
\* ------------------------------------------------------------------------

\* C16 as claimed: a chunk of a pass shares its vector path with a stored
\* record only if the record was written for the same bucket, key and
\* version token, and two chunks of a pass share a path only if they have
\* the same index.
C16_ChunkIdUnique ==
    \A w \in Workers :
        proc[w].pc \in InPass =>
            \A i \in 0..(Len(proc[w].chunks) - 1) :
                /\ VectorKey(proc[w], i) \in DOMAIN stored_for =>
                      SameVersion(stored_for[VectorKey(proc[w], i)], proc[w].event)
                /\ \A j \in 0..(Len(proc[w].chunks) - 1) :
                      VectorKey(proc[w], i) = VectorKey(proc[w], j) => i = j

\* ------------------------------------------------------------------------
\* Claims about the order of operations in a pass (checked under Spec)
\* ------------------------------------------------------------------------

\* Where a pass stands between its chunks' operations.
InLoop == {"probe", "embed", "store"}

\* What holds of a pass p at every point of its loop: the chunks before idx
\* are dealt with, in order; embed_text is entered only on a check that did
\* not find the record, and store_vector only with the vector embed_text
\* returned for chunk idx.
ProtocolState(p) ==
    /\ Len(p.manifest) = p.idx
    /\ \A i \in 1..Len(p.manifest) : p.manifest[i].chunk_id = ChunkId(p.doc_id, i - 1)
    /\ p.pc \in InLoop => p.idx < Len(p.chunks)
    /\ p.pc = "manifest" => p.idx = Len(p.chunks)
    /\ p.pc \in {"embed", "store"} => p.head.kind # "ok"
    /\ p.pc = "store" =>
          /\ p.embedding # <<>>
          /\ p.responses # <<>>
          /\ p.responses[Len(p.responses)].kind = "ok"
          /\ p.embedding = EmbeddingOf(p.responses[Len(p.responses)]).value

\* What a step of the pass of worker w does to it, by where the pass stood;
\* key is the vector key of chunk idx, the only record a step touches.
ProtocolStep(p, q, key) ==
    /\ \A k \in DOMAIN store' : k # key => (k \in DOMAIN store /\ store'[k] = store[k])
    /\ p.pc \in {"probe", "embed"} => store' = store
    /\ p.pc = "probe" =>
          \/ /\ q.pc = "embed"
             /\ q.idx = p.idx
             /\ q.head.kind # "ok"
             /\ q.n_embed = p.n_embed + 1
             /\ q.n_store = p.n_store
          \/ /\ q.pc \in {"probe", "manifest"}
             /\ q.idx = p.idx + 1
             /\ key \in DOMAIN store
             /\ q.n_embed = p.n_embed
             /\ q.n_store = p.n_store
             /\ q.responses = <<>>
          \/ q.pc = "failed" /\ q.idx = p.idx /\ q.n_embed = p.n_embed
    /\ p.pc = "embed" =>
          /\ q.idx = p.idx
          /\ q.n_store = p.n_store
          /\ q.pc \in {"embed", "store", "failed"}
          /\ Len(q.responses) = Len(p.responses) + 1
    /\ p.pc = "store" =>
          /\ q.n_store = p.n_store + 1
          /\ q.n_embed = p.n_embed
          /\ \/ q.pc = "failed" /\ q.idx = p.idx
             \/ /\ q.pc \in {"probe", "manifest"}
                /\ q.idx = p.idx + 1
                /\ store'[key].embedding = p.embedding
                /\ store'[key].id = ChunkId(p.doc_id, p.idx)

\* C17: a pass goes through its chunks one at a time in increasing index:
\* the existence check first; embed_text only if the check did not find the
\* record; store_vector only after embed_text returned a vector for the same
\* chunk; the index advances only when the chunk is stored or skipped; and a
\* chunk whose check returned true is skipped without an embed call.
C17_PassProtocol ==
    /\ [](\A w \in Workers :
            proc[w].pc \in InLoop \cup {"manifest"} => ProtocolState(proc[w]))
    /\ [][\A w \in Workers :
            (proc[w].pc \in InLoop /\ proc'[w] # proc[w]) =>
                ProtocolStep(proc[w], proc'[w], VectorKey(proc[w], proc[w].idx))]_vars

\* C17's case: a pass skipped chunk 0, whose record an earlier pass had
\* stored, then embedded and stored chunk 1, and stands at chunk 2's check.
C17_Witness ==
    /\ proc["w1"].pc = "probe"
    /\ proc["w1"].idx = 2
    /\ proc["w1"].n_embed = 1
    /\ proc["w1"].n_store = 1
    /\ ~proc["w1"].denied

\* ------------------------------------------------------------------------
\* Claims about embed_text's waits (checked under SpecEmbed)
\* ------------------------------------------------------------------------

\* The delays before jitter, in milliseconds, of the first to the seventh wait.
PreJitterMs == <<500, 1000, 2000, 4000, 8000, 8000, 8000>>

\* C18: in one embed_text, the i-th backoff wait follows the i-th call, which
\* was throttled and was not the last allowed attempt, so there are at most
\* 7 waits; the wait is the i-th of 0.5, 1, 2, 4, 8, 8, 8 s scaled by a
\* factor in [0.75, 1.25], and at most 10 s; a throttled call that is not
\* the last is followed by its wait; and the 0.05-0.15 s pacing delay comes
\* only after a successful response that holds a vector, as the last sleep.
C18_BackoffWaits ==
    \A w \in Workers :
        LET p == proc[w] IN
        /\ Cardinality({i \in DOMAIN p.sleeps : p.sleeps[i].kind = "backoff"}) <= 7
        /\ \A i \in DOMAIN p.sleeps :
              LET sl == p.sleeps[i] IN
              /\ sl.kind = "backoff" =>
                    /\ sl.attempt = i - 1
                    /\ sl.attempt < 7
                    /\ p.responses[i] = Throttled
                    /\ 75 * PreJitterMs[i] <= 100 * sl.ms
                    /\ 100 * sl.ms <= 125 * PreJitterMs[i]
                    /\ sl.ms <= 10000
              /\ sl.kind = "pacing" =>
                    /\ i = Len(p.sleeps)
                    /\ Len(p.responses) = sl.attempt + 1
                    /\ p.responses[sl.attempt + 1].kind = "ok"
                    /\ ~Falsy(EmbeddingOf(p.responses[sl.attempt + 1]))
                    /\ 50 <= sl.ms /\ sl.ms <= 150
        /\ \A j \in DOMAIN p.responses :
              (p.responses[j] = Throttled /\ j < 8) =>
                  (j \in DOMAIN p.sleeps /\ p.sleeps[j].kind = "backoff")
        /\ \A j \in DOMAIN p.responses :
              (p.responses[j] # Throttled /\ ~(p.responses[j].kind = "ok" /\ ~Falsy(EmbeddingOf(p.responses[j])))) =>
                  Len(p.sleeps) = j - 1

\* C18's case: eight throttled calls, seven waits, the last of 10 s; the
\* eighth call is followed by no wait.
C18_Witness ==
    \E w \in Workers :
        /\ proc[w].pc = "failed"
        /\ Len(proc[w].responses) = 8
        /\ AllThrottled(proc[w].responses)
        /\ Len(proc[w].sleeps) = 7
        /\ proc[w].sleeps[7].ms = 10000
        /\ proc[w].sleeps[1].ms = 375

\* Two waits, then a vector and the pacing delay.
C18_WitnessPacing ==
    \E w \in Workers :
        /\ proc[w].pc = "store"
        /\ Len(proc[w].sleeps) = 3
        /\ proc[w].sleeps[2].kind = "backoff"
        /\ proc[w].sleeps[3] = Sleep("pacing", 2, 150)

\* ------------------------------------------------------------------------
\* Claims about the failures that leave process_s3_event (checked under Spec)
\* ------------------------------------------------------------------------

\* The names that give a failure its document or chunk context.
DocContext == {"bucket", "key", "doc_id", "chunk_id"}

\* C19 as claimed: a pass that failed on a collaborator (fetch, existence
\* check, embedding response, store write) leaves process_s3_event with a
\* RuntimeError of the handler's own, never the service's error, and its
\* message names the document or the chunk.
C19_SingleDescriptiveFailure ==
    \A w \in Workers :
        (proc[w].pc = "failed" /\ proc[w].error.type # "UnicodeDecodeError") =>
            /\ proc[w].error.type = "RuntimeError"
            /\ ErrorNames(proc[w].error) \cap DocContext # {}

\* What does hold of a failed pass: it holds one exception, fixed by the
\* operation that failed. The existence check fails only on an answer that is neither
\* success, not-found nor access-denied, and with head_object's own error,
\* which names nothing. The fetch fails with a RuntimeError naming bucket and
\* key, or with the UnicodeDecodeError of the body. embed_text fails with a
\* RuntimeError naming the model on an error answer, and with one naming
\* nothing on a body without a vector. store_vector and put_manifest fail
\* with a RuntimeError naming the chunk_id, the doc_id.
FailureByOperation ==
    \A w \in Workers :
        LET p == proc[w]
            e == p.error
            n == Len(p.responses)
        IN
        p.pc = "failed" =>
            /\ e.op \in {"fetch", "vector_exists", "embed_text",
                         "embed_text: missing vector", "store_vector", "put_manifest"}
            /\ e.op = "fetch" =>
                  /\ e.type \in {"RuntimeError", "UnicodeDecodeError"}
                  /\ e.type = "RuntimeError" => ErrorNames(e) = {"bucket", "key"}
            /\ e.op = "vector_exists" =>
                  /\ e.type = p.head.kind
                  /\ e.type \in {"ClientError", "BotoCoreError"}
                  /\ ~IsDenied(p.head) /\ ~IsNotFound(p.head)
                  /\ ErrorNames(e) = {}
            /\ e.op = "embed_text" =>
                  /\ e.type = "RuntimeError"
                  /\ ErrorNames(e) = {"model"}
                  /\ n >= 1 /\ p.responses[n].kind # "ok"
            /\ e.op = "embed_text: missing vector" =>
                  /\ e.type = "RuntimeError"
                  /\ ErrorNames(e) = {}
                  /\ n >= 1 /\ p.responses[n].kind = "ok" /\ Falsy(EmbeddingOf(p.responses[n]))
            /\ e.op = "store_vector" => (e.type = "RuntimeError" /\ ErrorNames(e) = {"chunk_id"})
            /\ e.op = "put_manifest" => (e.type = "RuntimeError" /\ ErrorNames(e) = {"doc_id"})
            /\ e.op # "put_manifest" => p.n_manifest = 0

\* The existence check of chunk 1 answered a ClientError with code 500 after
\* chunk 0 was stored, and the pass failed with it.
FailedOnExistenceCheck ==
    \E w \in Workers :
        /\ proc[w].pc = "failed"
        /\ proc[w].error = Raised("ClientError", "vector_exists")
        /\ proc[w].head = HeadClientError("500")
        /\ proc[w].idx = 1

\* A body without a vector: a RuntimeError that names nothing.
FailedOnMissingVector ==
    \E w \in Workers :
        /\ proc[w].pc = "failed"
        /\ proc[w].error = Raised("RuntimeError", "embed_text: missing vector")

\* ------------------------------------------------------------------------
\* Claims about the manifest entry of a skipped chunk (checked under Spec)
\* ------------------------------------------------------------------------

\* The entry the step of worker w appended to its manifest.
Appended(w) == proc'[w].manifest[Len(proc'[w].manifest)]

\* C20 as claimed: when the existence check answers true, no embed call is
\* made and the entry appended is marked, so that it differs from the entry
\* appended for the same chunk when it is embedded and stored.
C20_SkipMarkedFromCache ==
    [][\A w \in Workers :
        SkipStep(w) =>
            /\ proc'[w].n_embed = proc[w].n_embed
            /\ proc'[w].responses = proc[w].responses
            /\ Appended(w) # ManifestEntry(proc[w], proc[w].idx)]_vars

\* C20 amended: when the existence check answers true, no embed call and no
\* store is made, and the entry appended has the six fields and the values
\* of the entry of a chunk embedded and stored in this pass: nothing marks it.
C20_SkipEntryUnmarked ==
    [][\A w \in Workers :
        SkipStep(w) =>
            /\ proc'[w].n_embed = proc[w].n_embed
            /\ proc'[w].responses = proc[w].responses
            /\ proc'[w].n_store = proc[w].n_store
            /\ store' = store
            /\ DOMAIN Appended(w) =
                  {"chunk_id", "doc_type", "chunk_text_preview", "source_s3_uri", "length", "created_at"}
            /\ Appended(w) = ManifestEntry(proc[w], proc[w].idx)]_vars

\* C20's case: in one pass chunk 0 was skipped on a stored record and chunk 1
\* embedded and stored, and the two entries have the same fields.
C20_Witness ==
    \E w \in Workers :
        /\ proc[w].event = Readme
        /\ proc[w].idx = 2
        /\ proc[w].n_embed = 1
        /\ proc[w].n_store = 1
        /\ ~proc[w].denied
        /\ DOMAIN proc[w].manifest[1] = DOMAIN proc[w].manifest[2]
        /\ proc[w].manifest[1].created_at = proc[w].manifest[2].created_at

====
